---- MODULE Spec2Model ----
(***************************************************************************)
(* Verification model of the doc-query backend (src/backend).              *)
(*                                                                         *)
(*   Part I   tenant identification   (tenant_middleware.py)               *)
(*   Part II  streaming orchestrator  (llm_service.py)                     *)
(*   Part III tenant-scoped chat, documents and the vector index           *)
(*            (routers/chat.py, routers/documents.py, vector_store.py,     *)
(*             tenant_provisioning.py, database.py)                        *)
(***************************************************************************)
EXTENDS Integers, Sequences, FiniteSets, TLC

VARIABLES
    tenants,    \* rows of the "tenants" table (database.py Tenant)
    reqs,       \* identify_tenant invocations: request inputs and position
    dbFaults,   \* whether the record store may fail a commit transiently
    genPc,          \* position of generate_streaming_rag_response
    context_chunks, \* number of chunks its retrieval returned
    full_response,  \* the text it has accumulated
    events,         \* the events it has yielded, in order
    modelOut,       \* the deltas the model stream has delivered, in order
    modelState,     \* "idle", "open", "finished" or "failed"
    documents,      \* rows of the "documents" table
    files,          \* paths present in the upload directory
    collection,     \* entries of the vector index (ChromaDB collection)
    chat_sessions,  \* rows of the "chat_sessions" table
    chat_messages,  \* rows of the "chat_messages" table
    sends,          \* chat-send requests: inputs and position
    clock,          \* datetime.utcnow(), as a logical time
    last,           \* the operation that completed last and what it touched
    openai_api_key  \* settings.openai_api_key of the running process

identVars == <<tenants, reqs, dbFaults>>
streamVars ==
    <<genPc, context_chunks, full_response, events, modelOut, modelState>>
chatVars ==
    <<documents, files, collection, chat_sessions, chat_messages, sends,
      clock, last>>
configVars == <<openai_api_key>>
vars == <<identVars, streamVars, chatVars, configVars>>

(***************************************************************************)
(* Bounds                                                                  *)
(***************************************************************************)
MaxTenants == 2
NumRacers == 2
MaxDeltas == 3
MaxContext == 2
MaxChunks == 2
NumSends == 2
QuotaMessages == 1
QuotaDocuments == 1
MaxRegenerations == 2

(***************************************************************************)
(* Part I - the tenants table                                              *)
(***************************************************************************)
NoId == ""
NoKey == ""

DefaultMaxDocuments == 100
DefaultMaxChatMessages == 10000

TenantIds == {"t1", "default"}
TenantNames == {"Acme", "Default Tenant"}
ApiKeys == {"k1"}

\* database.py Tenant: id is the primary key, api_key is unique when present
TenantRows ==
    [id : TenantIds, name : TenantNames, api_key : ApiKeys \cup {NoKey},
     is_active : BOOLEAN,
     max_documents : {DefaultMaxDocuments},
     max_chat_messages : {DefaultMaxChatMessages}]

NoTenant ==
    [id |-> NoId, name |-> "", api_key |-> NoKey, is_active |-> FALSE,
     max_documents |-> 0, max_chat_messages |-> 0]

\* the constraints the table keeps: primary key on id, unique api_key
TableOk(table) ==
    \A a, b \in table :
        (a # b) => /\ a.id # b.id
                   /\ (a.api_key = NoKey \/ a.api_key # b.api_key)

TenantTables ==
    {table \in SUBSET TenantRows :
        Cardinality(table) <= MaxTenants /\ TableOk(table)}

(***************************************************************************)
(* Part I - requests and the identifier extractors                         *)
(***************************************************************************)
NoCredentials == [scheme |-> "", credentials |-> NoKey]

CredentialsSet == {NoCredentials, [scheme |-> "bearer", credentials |-> "k1"]}

\* a Host header is its sequence of dot-separated labels
Hosts == {<<>>, <<"localhost">>, <<"t1", "localhost">>}

QueryParams == {NoId, "t1", "default"}
PathParams == {NoId, "t1", "default"}

\* TenantMiddleware.get_tenant_from_header
get_tenant_from_header(rq) ==
    IF rq.credentials # NoCredentials /\ rq.credentials.scheme = "bearer"
    THEN rq.credentials.credentials
    ELSE NoId

\* TenantMiddleware.get_tenant_from_subdomain: the text before the first dot
get_tenant_from_subdomain(rq) ==
    IF Len(rq.host) = 0 THEN NoId
    ELSE IF Len(rq.host) > 1 THEN Head(rq.host)
    ELSE NoId

\* TenantMiddleware.get_tenant_from_query_param
get_tenant_from_query_param(rq) == rq.query_tenant_id

\* TenantMiddleware.get_tenant_from_path_param
get_tenant_from_path_param(rq) == rq.path_tenant_id

\* Tenant.api_key == tenant_id, Tenant.is_active == True
ByApiKey(table, key) == {t \in table : t.api_key = key /\ t.is_active}

\* variant of ByActiveId that forgets the is_active condition
ByActiveId_AnyState(table, id) == {t \in table : t.id = id}

\* Tenant.id == tenant_id, Tenant.is_active == True
ByActiveId(table, id) == {t \in table : t.id = id /\ t.is_active}

\* Tenant.name == "Default Tenant"
ByDefaultName(table) == {t \in table : t.name = "Default Tenant"}

\* Tenant.id == "default"
ByDefaultId(table) == {t \in table : t.id = "default"}

\* the row identify_tenant builds when the table has no tenant at all
NewDefaultTenant ==
    [id |-> "default", name |-> "Default Tenant", api_key |-> NoKey,
     is_active |-> TRUE,
     max_documents |-> DefaultMaxDocuments,
     max_chat_messages |-> DefaultMaxChatMessages]

\* outcomes of db.commit() for an inserted tenant row: a primary-key or
\* unique-key conflict always raises, a faulty store may raise anyway
CommitOutcomes(row, table, faulty) ==
    IF ~TableOk(table \cup {row}) \/ (\E t \in table : t.id = row.id)
    THEN {FALSE}
    ELSE IF faulty THEN {TRUE, FALSE} ELSE {TRUE}

\* return TenantContext(tenant); `site` records which branch bound the tenant:
\* 1..4 the strategies, 5 development mode, 6 the fallback lookups and the
\* lazy creation, 7 the re-fetch after a failed commit
Bind(rq, t, site) == [rq EXCEPT !.pc = "done", !.tenant = t, !.via = site]

Goto(rq, label) == [rq EXCEPT !.pc = label]

NewRequest(c, h, q, p, d) ==
    [credentials |-> c, host |-> h, query_tenant_id |-> q,
     path_tenant_id |-> p, dev_mode |-> d,
     pc |-> "s1", tenant |-> NoTenant, via |-> 0]

(***************************************************************************)
(* Part I - identify_tenant, one action per database round trip            *)
(***************************************************************************)
\* Strategy 1: API key in the Authorization header
Strategy1(r) ==
    /\ reqs[r].pc = "s1"
    /\ LET tenant_id == get_tenant_from_header(reqs[r])
           found == ByApiKey(tenants, tenant_id)
       IN reqs' = [reqs EXCEPT ![r] =
                IF tenant_id # NoId /\ found # {}
                THEN Bind(@, CHOOSE t \in found : TRUE, 1)
                ELSE Goto(@, "s2")]
    /\ UNCHANGED <<tenants, dbFaults, streamVars, chatVars, configVars>>

\* Strategy 2: subdomain
Strategy2(r) ==
    /\ reqs[r].pc = "s2"
    /\ LET tenant_id == get_tenant_from_subdomain(reqs[r])
           found == ByActiveId(tenants, tenant_id)
       IN reqs' = [reqs EXCEPT ![r] =
                IF tenant_id # NoId /\ found # {}
                THEN Bind(@, CHOOSE t \in found : TRUE, 2)
                ELSE Goto(@, "s3")]
    /\ UNCHANGED <<tenants, dbFaults, streamVars, chatVars, configVars>>

\* Strategy 3: query parameter
Strategy3(r) ==
    /\ reqs[r].pc = "s3"
    /\ LET tenant_id == get_tenant_from_query_param(reqs[r])
           found == ByActiveId(tenants, tenant_id)
       IN reqs' = [reqs EXCEPT ![r] =
                IF tenant_id # NoId /\ found # {}
                THEN Bind(@, CHOOSE t \in found : TRUE, 3)
                ELSE Goto(@, "s4")]
    /\ UNCHANGED <<tenants, dbFaults, streamVars, chatVars, configVars>>

\* Strategy 4: path parameter
Strategy4(r) ==
    /\ reqs[r].pc = "s4"
    /\ LET tenant_id == get_tenant_from_path_param(reqs[r])
           found == ByActiveId(tenants, tenant_id)
       IN reqs' = [reqs EXCEPT ![r] =
                IF tenant_id # NoId /\ found # {}
                THEN Bind(@, CHOOSE t \in found : TRUE, 4)
                ELSE Goto(@, "s5")]
    /\ UNCHANGED <<tenants, dbFaults, streamVars, chatVars, configVars>>

\* Strategy 5: default tenant when x-development-mode is "true"; first()
\* over a non-unique column returns any of the matching rows
Strategy5(r) ==
    /\ reqs[r].pc = "s5"
    /\ LET found == ByDefaultName(tenants)
       IN IF reqs[r].dev_mode /\ found # {}
          THEN \E t \in found : reqs' = [reqs EXCEPT ![r] = Bind(@, t, 5)]
          ELSE reqs' = [reqs EXCEPT ![r] = Goto(@, "byname")]
    /\ UNCHANGED <<tenants, dbFaults, streamVars, chatVars, configVars>>

\* fallback, first query: the tenant named "Default Tenant"
LookupByName(r) ==
    /\ reqs[r].pc = "byname"
    /\ LET found == ByDefaultName(tenants)
       IN IF found # {}
          THEN \E t \in found : reqs' = [reqs EXCEPT ![r] = Bind(@, t, 6)]
          ELSE reqs' = [reqs EXCEPT ![r] = Goto(@, "byid")]
    /\ UNCHANGED <<tenants, dbFaults, streamVars, chatVars, configVars>>

\* fallback, second query: the tenant with id "default"
LookupById(r) ==
    /\ reqs[r].pc = "byid"
    /\ LET found == ByDefaultId(tenants)
       IN IF found # {}
          THEN \E t \in found : reqs' = [reqs EXCEPT ![r] = Bind(@, t, 6)]
          ELSE reqs' = [reqs EXCEPT ![r] = Goto(@, "any")]
    /\ UNCHANGED <<tenants, dbFaults, streamVars, chatVars, configVars>>

\* fallback, third query: any tenant
LookupAny(r) ==
    /\ reqs[r].pc = "any"
    /\ IF tenants # {}
       THEN \E t \in tenants : reqs' = [reqs EXCEPT ![r] = Bind(@, t, 6)]
       ELSE reqs' = [reqs EXCEPT ![r] = Goto(@, "create")]
    /\ UNCHANGED <<tenants, dbFaults, streamVars, chatVars, configVars>>

\* db.add(Tenant(id="default", ...)); db.commit(); db.refresh(tenant)
CreateDefault(r) ==
    /\ reqs[r].pc = "create"
    /\ \E ok \in CommitOutcomes(NewDefaultTenant, tenants, dbFaults) :
         IF ok
         THEN /\ tenants' = tenants \cup {NewDefaultTenant}
              /\ reqs' = [reqs EXCEPT ![r] = Bind(@, NewDefaultTenant, 6)]
         ELSE /\ tenants' = tenants
              /\ reqs' = [reqs EXCEPT ![r] = Goto(@, "refetch")]
    /\ UNCHANGED <<dbFaults, streamVars, chatVars, configVars>>

\* variant of RefetchMiss that returns instead of raising
RefetchMiss_Silent(rq) == [rq EXCEPT !.pc = "done", !.via = 7]

\* outcome of the except branch when the re-fetch finds no tenant
RefetchMiss(rq) == [rq EXCEPT !.pc = "failed"]

\* variant of Refetch that reports the failed commit instead of re-fetching
Refetch_Raise(r) ==
    /\ reqs[r].pc = "refetch"
    /\ reqs' = [reqs EXCEPT ![r] = RefetchMiss(@)]
    /\ UNCHANGED <<tenants, dbFaults, streamVars, chatVars, configVars>>

\* except: db.rollback(); tenant = db.query(Tenant).first(); raise if none
Refetch(r) ==
    /\ reqs[r].pc = "refetch"
    /\ IF tenants # {}
       THEN \E t \in tenants : reqs' = [reqs EXCEPT ![r] = Bind(@, t, 7)]
       ELSE reqs' = [reqs EXCEPT ![r] = RefetchMiss(@)]
    /\ UNCHANGED <<tenants, dbFaults, streamVars, chatVars, configVars>>

\* settings.openai_api_key: Optional[str] = None, or the key of the
\* deployment
NoOpenAIKey == ""

OpenAIKeys == {NoOpenAIKey, "sk-openai"}

\* the deployment the chat, streaming and identification specifications
\* run in has its key
Configured == openai_api_key = "sk-openai"

\* LLMService.__init__: raises ValueError("OpenAI API key not configured")
\* without the key
LLMService_init(key) ==
    [raised |-> key = NoOpenAIKey, openai_client |-> key # NoOpenAIKey]

\* VectorStore.__init__: without the key it logs a warning, sets
\* openai_client to None and returns the instance
VectorStore_init(key) ==
    [raised |-> FALSE, openai_client |-> key # NoOpenAIKey]

\* generate_embeddings: raises ValueError("OpenAI client not initialized")
\* when openai_client is None; with a client the API call succeeds or
\* raises
EmbedOutcomes ==
    IF VectorStore_init(openai_api_key).openai_client
    THEN BOOLEAN ELSE {FALSE}

\* the parts of the system a specification leaves out stay idle
IdentIdle == tenants = {} /\ reqs = <<>> /\ dbFaults = FALSE

StreamIdle ==
    /\ genPc = "idle" /\ context_chunks = 0 /\ full_response = <<>>
    /\ events = <<>> /\ modelOut = <<>> /\ modelState = "idle"

\* nothing has completed yet; an operation records the tenant it ran for
\* and the rows and index entries its queries selected
NoDocument == 0

NoOperation ==
    [op |-> "none", actor |-> NoId, outcome |-> "none",
     document_id |-> NoDocument,
     documents |-> {}, messages |-> {}, sessions |-> {}, chunks |-> {},
     rag |-> [keys |-> {}], list |-> <<>>,
     stats |-> [total |-> 0, positive |-> 0, negative |-> 0]]

ChatIdle ==
    /\ documents = {} /\ files = {} /\ collection = {}
    /\ chat_sessions = {} /\ chat_messages = {} /\ sends = <<>>
    /\ clock = 0 /\ last = NoOperation

(***************************************************************************)
(* Part I - specifications                                                 *)
(***************************************************************************)
Requests ==
    {NewRequest(c, h, q, p, d) :
        c \in CredentialsSet, h \in Hosts, q \in QueryParams,
        p \in PathParams, d \in BOOLEAN}

\* requests that carry no tenant identification at all
AnonymousRequests ==
    {NewRequest(NoCredentials, h, NoId, NoId, d) :
        h \in {<<>>, <<"localhost">>}, d \in BOOLEAN}

\* one request against any state of the tenant table; commits may fail
InitIdentify ==
    /\ tenants \in TenantTables
    /\ reqs \in [{1} -> Requests]
    /\ dbFaults = TRUE
    /\ StreamIdle /\ ChatIdle /\ Configured

\* concurrent anonymous requests against an empty tenant table
InitRace ==
    /\ tenants = {}
    /\ reqs \in [1..NumRacers -> AnonymousRequests]
    /\ dbFaults = FALSE
    /\ StreamIdle /\ ChatIdle /\ Configured

\* identify_tenant: the steps of every request in flight
NextIdentify ==
    \/ \E r \in DOMAIN reqs : Strategy1(r)
    \/ \E r \in DOMAIN reqs : Strategy2(r)
    \/ \E r \in DOMAIN reqs : Strategy3(r)
    \/ \E r \in DOMAIN reqs : Strategy4(r)
    \/ \E r \in DOMAIN reqs : Strategy5(r)
    \/ \E r \in DOMAIN reqs : LookupByName(r)
    \/ \E r \in DOMAIN reqs : LookupById(r)
    \/ \E r \in DOMAIN reqs : LookupAny(r)
    \/ \E r \in DOMAIN reqs : CreateDefault(r)
    \/ \E r \in DOMAIN reqs : Refetch(r)

SpecIdentify == InitIdentify /\ [][NextIdentify]_vars

SpecRace == InitRace /\ [][NextIdentify]_vars

(***************************************************************************)
(* Part I - properties of identify_tenant                                  *)
(***************************************************************************)
\* the identifier strategy k reads from the request, stated from the
\* resolution order: 1 bearer API key, 2 subdomain, 3 query, 4 path
StrategyIdentifier(rq, k) ==
    CASE k = 1 -> IF rq.credentials.scheme = "bearer"
                  THEN rq.credentials.credentials ELSE NoId
      [] k = 2 -> IF Len(rq.host) >= 2 THEN rq.host[1] ELSE NoId
      [] k = 3 -> rq.query_tenant_id
      [] k = 4 -> rq.path_tenant_id

\* the active tenants strategy k's identifier designates in the table
StrategyYield(rq, k) ==
    {t \in tenants :
        /\ StrategyIdentifier(rq, k) # NoId
        /\ t.is_active
        /\ IF k = 1 THEN t.api_key = StrategyIdentifier(rq, k)
                    ELSE t.id = StrategyIdentifier(rq, k)}

StrategyAt(label) ==
    CASE label = "s1" -> 1 [] label = "s2" -> 2
      [] label = "s3" -> 3 [] label = "s4" -> 4

PastStrategies ==
    {"s5", "byname", "byid", "any", "create", "refetch", "failed"}

\* C5: identify_tenant tries bearer API key, subdomain, query parameter and
\* path parameter in that order; it binds the tenant of the first strategy
\* whose identifier matches an active tenant, and a later strategy is
\* consulted only if every earlier one yielded no active tenant.
C5_FirstMatchWins ==
    \A r \in DOMAIN reqs :
        LET rq == reqs[r] IN
        /\ (rq.pc = "done" /\ rq.via \in 1..4) =>
              /\ rq.tenant \in StrategyYield(rq, rq.via)
              /\ \A j \in 1..(rq.via - 1) : StrategyYield(rq, j) = {}
        /\ (rq.pc \in {"s1", "s2", "s3", "s4"}) =>
              \A j \in 1..(StrategyAt(rq.pc) - 1) : StrategyYield(rq, j) = {}
        /\ (rq.pc \in PastStrategies \/ (rq.pc = "done" /\ rq.via = 5)) =>
              \A j \in 1..4 : StrategyYield(rq, j) = {}

\* a request bound by the query parameter although it also carried a bearer
\* key and a subdomain, neither of which designated an active tenant
C5_Witness ==
    \E r \in DOMAIN reqs :
        /\ reqs[r].pc = "done" /\ reqs[r].via = 3
        /\ StrategyIdentifier(reqs[r], 1) # NoId
        /\ StrategyIdentifier(reqs[r], 2) # NoId
        /\ reqs[r].tenant.id = reqs[r].query_tenant_id

\* C6: for every request and every state of the tenant table,
\* identify_tenant ends either with exactly one bound tenant (a row of the
\* table) or with an explicit failure; it never returns with no tenant.
C6_BoundOrFailed ==
    \A r \in DOMAIN reqs :
        /\ reqs[r].pc = "done" =>
              /\ reqs[r].tenant # NoTenant
              /\ reqs[r].tenant.id # NoId
              /\ reqs[r].tenant \in tenants
              /\ reqs[r].via \in 1..7
        /\ reqs[r].pc # "done" => reqs[r].tenant = NoTenant

\* the request found no tenant at all and the lazy creation could not be
\* committed: identify_tenant ended with the explicit failure
C6_Witness ==
    \E r \in DOMAIN reqs :
        /\ reqs[r].pc = "failed"
        /\ tenants = {}

\* C7: anonymous requests racing identify_tenant against an empty tenant
\* table all end bound to a tenant (none fails) and exactly one default
\* tenant row exists afterwards.
C7_LazyCreateIdempotent ==
    /\ \A r \in DOMAIN reqs : reqs[r].pc # "failed"
    /\ Cardinality({t \in tenants :
            t.id = "default" \/ t.name = "Default Tenant"}) <= 1
    /\ (\A r \in DOMAIN reqs : reqs[r].pc = "done") =>
          /\ Cardinality(tenants) = 1
          /\ \A r \in DOMAIN reqs :
                reqs[r].tenant \in tenants /\ reqs[r].tenant.id = "default"

\* every request is bound, one of them after losing the race: its commit
\* conflicted with the row another request had created
C7_Witness ==
    /\ \A r \in DOMAIN reqs : reqs[r].pc = "done"
    /\ \E r \in DOMAIN reqs : reqs[r].via = 7
    /\ \E r \in DOMAIN reqs : reqs[r].via = 6

(***************************************************************************)
(* Part II - generate_streaming_rag_response (llm_service.py)              *)
(* Text is a sequence of characters; += is sequence concatenation.         *)
(***************************************************************************)
\* delta.content of the chunks the model stream delivers; <<>> is a chunk
\* without content
Deltas == {<<>>, <<"a">>, <<"b", "a">>}

\* "I couldn't find any relevant information in your documents ..."
NoContextText == <<"N">>

\* f"Sorry, I encountered an error: {str(e)}"
ErrorText == <<"E">>

ContentEvent(content) ==
    [type |-> "content", content |-> content, citations |-> 0]

NoContextEvent ==
    [type |-> "error", content |-> NoContextText, citations |-> 0]

ErrorEvent == [type |-> "error", content |-> ErrorText, citations |-> 0]

\* the final event: the accumulated text and one citation per context chunk
CompleteEvent(text, n) ==
    [type |-> "complete", content |-> text, citations |-> n]

\* variant of Accumulate that assigns instead of appending
Accumulate_Overwrite(text, content) == content

\* full_response += content
Accumulate(text, content) == text \o content

InitStream ==
    /\ genPc = "search" /\ context_chunks = 0 /\ full_response = <<>>
    /\ events = <<>> /\ modelOut = <<>> /\ modelState = "idle"
    /\ IdentIdle /\ ChatIdle /\ Configured

\* context_chunks = self.vector_store.search_similar(...); an empty result
\* yields the no-context error event and returns
Retrieve ==
    /\ genPc = "search"
    /\ \E n \in 0..MaxContext :
         /\ context_chunks' = n
         /\ IF n = 0
            THEN /\ events' = Append(events, NoContextEvent)
                 /\ genPc' = "closed"
            ELSE /\ events' = events
                 /\ genPc' = "open"
    /\ UNCHANGED <<full_response, modelOut, modelState>>
    /\ UNCHANGED <<identVars, chatVars, configVars>>

\* stream = await self.client.chat.completions.create(..., stream=True)
OpenStream ==
    /\ genPc = "open"
    /\ \E ok \in BOOLEAN :
         IF ok
         THEN modelState' = "open" /\ genPc' = "stream"
         ELSE modelState' = "failed" /\ genPc' = "except"
    /\ UNCHANGED <<context_chunks, full_response, events, modelOut>>
    /\ UNCHANGED <<identVars, chatVars, configVars>>

\* one iteration of `async for chunk in stream`: a chunk with content is
\* accumulated and yielded at once, a chunk without content is skipped
ModelDelta ==
    /\ genPc = "stream"
    /\ Len(modelOut) < MaxDeltas
    /\ \E content \in Deltas :
         /\ modelOut' = Append(modelOut, content)
         /\ IF content # <<>>
            THEN /\ full_response' = Accumulate(full_response, content)
                 /\ events' = Append(events, ContentEvent(content))
            ELSE UNCHANGED <<full_response, events>>
    /\ UNCHANGED <<genPc, context_chunks, modelState>>
    /\ UNCHANGED <<identVars, chatVars, configVars>>

\* the model stream is exhausted: the loop ends
ModelEnd ==
    /\ genPc = "stream"
    /\ modelState' = "finished"
    /\ genPc' = "citations"
    /\ UNCHANGED <<context_chunks, full_response, events, modelOut>>
    /\ UNCHANGED <<identVars, chatVars, configVars>>

\* the model stream raises while it is iterated
ModelRaise ==
    /\ genPc = "stream"
    /\ modelState' = "failed"
    /\ genPc' = "except"
    /\ UNCHANGED <<context_chunks, full_response, events, modelOut>>
    /\ UNCHANGED <<identVars, chatVars, configVars>>

\* citations = self._prepare_citations(context_chunks); yield 'complete'
EmitComplete ==
    /\ genPc = "citations"
    /\ events' = Append(events, CompleteEvent(full_response, context_chunks))
    /\ genPc' = "closed"
    /\ UNCHANGED <<context_chunks, full_response, modelOut, modelState>>
    /\ UNCHANGED <<identVars, chatVars, configVars>>

\* variant of EmitError that ends the generator without yielding
EmitError_Silent ==
    /\ genPc = "except"
    /\ genPc' = "closed"
    /\ UNCHANGED <<context_chunks, full_response, events, modelOut, modelState>>
    /\ UNCHANGED <<identVars, chatVars, configVars>>

\* variant of EmitError that replaces what was yielded by the error event
EmitError_Retract ==
    /\ genPc = "except"
    /\ events' = <<ErrorEvent>>
    /\ genPc' = "closed"
    /\ UNCHANGED <<context_chunks, full_response, modelOut, modelState>>
    /\ UNCHANGED <<identVars, chatVars, configVars>>

\* except Exception as e: yield the 'error' event
EmitError ==
    /\ genPc = "except"
    /\ events' = Append(events, ErrorEvent)
    /\ genPc' = "closed"
    /\ UNCHANGED <<context_chunks, full_response, modelOut, modelState>>
    /\ UNCHANGED <<identVars, chatVars, configVars>>

NextStream ==
    \/ Retrieve
    \/ OpenStream
    \/ ModelDelta
    \/ ModelEnd
    \/ ModelRaise
    \/ EmitComplete
    \/ EmitError

SpecStream == InitStream /\ [][NextStream]_vars

\* the consumer of the generator keeps asking for the next event, so a
\* generator that can yield its terminal event eventually does
FairSpecStream ==
    /\ SpecStream
    /\ WF_vars(EmitComplete)
    /\ WF_vars(EmitError)

(***************************************************************************)
(* Part II - properties of the event sequence                              *)
(***************************************************************************)
IsTerminal(e) == e.type \in {"complete", "error"}

TerminalPositions == {i \in 1..Len(events) : IsTerminal(events[i])}

RECURSIVE ConcatContent(_)
\* the contents of the content events of an event sequence, concatenated
ConcatContent(evs) ==
    IF evs = <<>> THEN <<>>
    ELSE (IF Head(evs).type = "content" THEN Head(evs).content ELSE <<>>)
         \o ConcatContent(Tail(evs))

HasContent(content) == content # <<>>

\* the deltas with content the model has delivered, in order of receipt
TokensReceived == SelectSeq(modelOut, HasContent)

\* C8: a streaming query that completes normally (the model stream ran to
\* its end) has produced exactly one terminal event, the complete event, and
\* the concatenation of all content events equals that event's full
\* response text; no stream ever holds more than one terminal event and
\* every closed stream holds exactly one.
C8_OneTerminalAndConcat ==
    /\ Cardinality(TerminalPositions) <= 1
    /\ genPc = "closed" => Cardinality(TerminalPositions) = 1
    /\ (genPc = "closed" /\ modelState = "finished") =>
          /\ events[Len(events)].type = "complete"
          /\ ConcatContent(events) = events[Len(events)].content

\* a completed stream of at least two content events, one of them longer
\* than a character, and the model also delivered a chunk without content
C8_Witness ==
    /\ genPc = "closed" /\ modelState = "finished"
    /\ Len(events) >= 3
    /\ Len(events[Len(events)].content) >= 3
    /\ Len(modelOut) > Len(events) - 1

\* C9 (state part): events are emitted in the order the tokens were
\* received and no event follows the terminal event
C9_Ordered ==
    /\ \A i \in TerminalPositions : i = Len(events)
    /\ LET contents == SelectSeq(events, LAMBDA e : e.type = "content")
       IN /\ Len(contents) = Len(TokensReceived)
          /\ \A i \in 1..Len(contents) :
                contents[i].content = TokensReceived[i]

\* C9: a stream never hangs open silently: once the model call has
\* finished or failed a terminal event is eventually emitted, events are
\* emitted in the order the tokens were received, and no content event is
\* emitted after the terminal event.
C9_TerminalEventuallyEmitted ==
    /\ [] C9_Ordered
    /\ (modelState \in {"finished", "failed"}) ~> (TerminalPositions # {})

\* the model failed after two tokens and the error event has been emitted
C9_Witness ==
    /\ modelState = "failed"
    /\ Len(TokensReceived) >= 2
    /\ TerminalPositions = {Len(events)}
    /\ genPc = "closed"

\* C10 (state part): after the model call raised, a closed stream is the k
\* content events received so far followed by one error event with a message
C10_ErrorAfterContent ==
    (genPc = "closed" /\ modelState = "failed") =>
        LET k == Len(TokensReceived) IN
        /\ Len(events) = k + 1
        /\ \A i \in 1..k :
              events[i] = [type |-> "content", content |-> TokensReceived[i],
                           citations |-> 0]
        /\ events[k + 1].type = "error"
        /\ events[k + 1].content # <<>>
        /\ \A i \in 1..Len(events) : events[i].type # "complete"

\* what has been emitted stays emitted: events only grows at its end
C10_NotRetracted ==
    /\ Len(events') >= Len(events)
    /\ SubSeq(events', 1, Len(events)) = events

\* C10: if the model call raises after k >= 0 content events, the event
\* sequence is exactly those k content events followed by one terminal
\* error event carrying a message; no complete event is emitted and the
\* content already emitted is not retracted.
C10_ErrorTerminal == [] C10_ErrorAfterContent /\ [][C10_NotRetracted]_vars

\* the model raised after two content events and the stream is closed
C10_Witness ==
    /\ genPc = "closed" /\ modelState = "failed"
    /\ Len(events) = 3
    /\ events[1].type = "content" /\ events[2].type = "content"

(***************************************************************************)
(* Part III - tenants, quotas and the conversation store                   *)
(***************************************************************************)
TenantA ==
    [id |-> "tA", name |-> "Acme", api_key |-> "kA", is_active |-> TRUE,
     max_documents |-> QuotaDocuments, max_chat_messages |-> QuotaMessages]

TenantB ==
    [id |-> "tB", name |-> "Beta", api_key |-> "kB", is_active |-> TRUE,
     max_documents |-> QuotaDocuments, max_chat_messages |-> QuotaMessages]

\* the tenant ids get_tenant_id can hand to a handler
ResolvedTenants == {t.id : t \in tenants}

NoSession == ""
NoFeedback == 0

\* str(uuid.uuid4()): an identifier no row and no request has used so far
SessionPool == {"u1", "u2", "u3", "u4"}

UsedSessionIds ==
    {x.session_id : x \in chat_sessions} \cup {m.session_id : m \in chat_messages}
    \cup {sends[r].session_id : r \in DOMAIN sends}

uuid4 == CHOOSE u \in SessionPool : u \notin UsedSessionIds

\* a caller supplies no session id, the id of some existing session (its
\* own or another tenant's) or an id no session has
UnknownSession == "sx"

SessionInputs ==
    {NoSession, UnknownSession} \cup {x.session_id : x \in chat_sessions}

\* the autoincrement primary key of a new row
NextId(rows) ==
    IF rows = {} THEN 1
    ELSE 1 + (CHOOSE i \in {x.id : x \in rows} :
                 \A j \in {x.id : x \in rows} : j <= i)

\* TenantProvisioning.get_tenant_usage: limits and per-tenant row counts
get_tenant_usage(tenant_id) ==
    LET tenant == CHOOSE t \in tenants : t.id = tenant_id IN
    [limits |-> [max_documents |-> tenant.max_documents,
                 max_chat_messages |-> tenant.max_chat_messages],
     usage |-> [documents |->
                    Cardinality({d \in documents : d.tenant_id = tenant_id}),
                chat_messages |->
                    Cardinality({m \in chat_messages : m.tenant_id = tenant_id}),
                chat_sessions |->
                    Cardinality({x \in chat_sessions : x.tenant_id = tenant_id})]]

\* variant of check_tenant_limits that admits one row beyond the limit
check_tenant_limits_OffByOne(tenant_id, resource_type, amount) ==
    LET usage == get_tenant_usage(tenant_id) IN
    IF resource_type = "documents"
    THEN usage.usage.documents <= usage.limits.max_documents
    ELSE IF resource_type = "chat_messages"
    THEN usage.usage.chat_messages <= usage.limits.max_chat_messages
    ELSE TRUE

\* TenantProvisioning.check_tenant_limits
check_tenant_limits(tenant_id, resource_type, amount) ==
    LET usage == get_tenant_usage(tenant_id) IN
    IF resource_type = "documents"
    THEN usage.usage.documents + amount <= usage.limits.max_documents
    ELSE IF resource_type = "chat_messages"
    THEN usage.usage.chat_messages + amount <= usage.limits.max_chat_messages
    ELSE TRUE

\* the keyword parameters of LLMService.generate_rag_response and of
\* generate_streaming_rag_response
RagParameters ==
    {"query", "n_context_chunks", "system_prompt", "temperature", "max_tokens"}

\* the keywords send_message and generate_stream pass to them
ChatRagKeywords == {"query", "n_context_chunks", "tenant_id"}

\* f"Mock response for tenant {tenant_id}: {request.message}"
MockResponse(tenant_id) == <<"mock", tenant_id>>

\* f"Sorry, I encountered an error: {str(e)}"
StreamErrorMessage == <<"error">>

\* the answer of the orchestrator, were the call to bind its arguments
RagAnswer == <<"answer">>

\* the response text a chat-send ends with: a call with a keyword the
\* callee does not declare raises TypeError, which both handlers catch
ResponseText(kind, tenant_id) ==
    IF ChatRagKeywords \subseteq RagParameters
    THEN RagAnswer
    ELSE IF kind = "stream" THEN StreamErrorMessage
    ELSE MockResponse(tenant_id)

\* the locals of a chat-send handler; they are gone once it has returned
NewSend ==
    [kind |-> "none", tenant_id |-> NoId, session_id |-> NoSession,
     pc |-> "new", outcome |-> "none", terminal |-> "none"]

\* the type of the last event generate_stream yields: the orchestrator's
\* terminal event when the call binds, the except branch's error event
\* when it raises
StreamTerminal ==
    IF ChatRagKeywords \subseteq RagParameters
    THEN {"complete", "error"} ELSE {"error"}

Operation(op, actor, outcome) ==
    [op |-> op, actor |-> actor, outcome |-> outcome,
     document_id |-> NoDocument,
     documents |-> {}, messages |-> {}, sessions |-> {}, chunks |-> {},
     rag |-> [keys |-> {}], list |-> <<>>,
     stats |-> [total |-> 0, positive |-> 0, negative |-> 0]]

\* send_message / send_message_stream up to the session bookkeeping: the
\* quota check comes first and raises HTTP 400 before anything is written.
\* Requests are numbered in the order in which their handlers start.
SendCheck(r) ==
    /\ sends[r].pc = "new"
    /\ \A q \in DOMAIN sends : q < r => sends[q].pc # "new"
    /\ \E kind \in {"send", "stream"}, tenant_id \in ResolvedTenants,
          sid \in SessionInputs :
         IF ~check_tenant_limits(tenant_id, "chat_messages", 1)
         THEN /\ sends' = [sends EXCEPT ![r] =
                    [NewSend EXCEPT !.pc = "done",
                                    !.outcome = "limit_exceeded"]]
              /\ last' = Operation(kind, tenant_id, "limit_exceeded")
              /\ UNCHANGED <<chat_sessions, clock>>
         ELSE LET session_id == IF sid = NoSession THEN uuid4 ELSE sid
                  mine == {x \in chat_sessions :
                             x.session_id = session_id
                             /\ x.tenant_id = tenant_id}
              IN /\ chat_sessions' =
                       IF sid = NoSession
                       THEN chat_sessions \cup
                              {[tenant_id |-> tenant_id,
                                session_id |-> session_id,
                                created_at |-> clock + 1,
                                updated_at |-> clock + 1]}
                       ELSE (chat_sessions \ mine) \cup
                              {[x EXCEPT !.updated_at = clock + 1] : x \in mine}
                 /\ clock' = clock + 1
                 /\ sends' = [sends EXCEPT ![r] =
                       [kind |-> kind, tenant_id |-> tenant_id,
                        session_id |-> session_id, pc |-> "rag",
                        outcome |-> "none", terminal |-> "none"]]
                 /\ last' = last
    /\ UNCHANGED <<documents, files, collection, chat_messages>>
    /\ UNCHANGED <<identVars, streamVars, configVars>>

\* the orchestrator call and the ChatMessage insert that follows it (the
\* r-th request to start carries the r-th message text); in
\* the streaming handler this is generate_stream run up to the yield of
\* its terminal event, the insert coming right before that yield
SendPersist(r) ==
    /\ sends[r].pc = "rag"
    /\ \E terminal \in IF sends[r].kind = "stream"
                        THEN StreamTerminal ELSE {"none"} :
       LET rq == sends[r]
           row == [id |-> NextId(chat_messages),
                   tenant_id |-> rq.tenant_id,
                   session_id |-> rq.session_id, message |-> r,
                   response |-> ResponseText(rq.kind, rq.tenant_id),
                   feedback |-> NoFeedback]
       IN /\ chat_messages' = chat_messages \cup {row}
          /\ sends' = [sends EXCEPT ![r] =
                [NewSend EXCEPT !.pc = "done", !.outcome = "ok",
                                !.terminal = terminal]]
          /\ last' = [Operation(rq.kind, rq.tenant_id, "ok")
                        EXCEPT !.messages = {row}]
    /\ UNCHANGED <<documents, files, collection, chat_sessions, clock>>
    /\ UNCHANGED <<identVars, streamVars, configVars>>

\* variant of Abandon in which closing the generator stores a message
Abandon_Persisting(r) ==
    /\ sends[r].pc = "rag" /\ sends[r].kind = "stream"
    /\ chat_messages' = chat_messages \cup
           {[id |-> NextId(chat_messages), tenant_id |-> sends[r].tenant_id,
             session_id |-> sends[r].session_id, message |-> r,
             response |-> StreamErrorMessage, feedback |-> NoFeedback]}
    /\ sends' = [sends EXCEPT ![r] =
          [NewSend EXCEPT !.pc = "done", !.outcome = "abandoned"]]
    /\ last' = Operation("stream", sends[r].tenant_id, "abandoned")
    /\ UNCHANGED <<documents, files, collection, chat_sessions, clock>>
    /\ UNCHANGED <<identVars, streamVars, configVars>>

\* the caller drops the streaming response before generate_stream has
\* yielded its terminal event: the generator is closed where it is
\* suspended (GeneratorExit and CancelledError pass `except Exception`)
Abandon(r) ==
    /\ sends[r].pc = "rag" /\ sends[r].kind = "stream"
    /\ sends' = [sends EXCEPT ![r] =
          [NewSend EXCEPT !.pc = "done", !.outcome = "abandoned"]]
    /\ last' = Operation("stream", sends[r].tenant_id, "abandoned")
    /\ UNCHANGED <<documents, files, collection, chat_sessions,
                   chat_messages, clock>>
    /\ UNCHANGED <<identVars, streamVars, configVars>>

\* get_chat_sessions: the tenant's sessions, each with the number of
\* messages that carry its session_id
get_chat_sessions(tenant_id) ==
    /\ LET sessions == {x \in chat_sessions : x.tenant_id = tenant_id}
           counted == {m \in chat_messages :
                         \E x \in sessions : m.session_id = x.session_id}
       IN last' = [Operation("get_chat_sessions", tenant_id, "ok")
                     EXCEPT !.sessions = sessions, !.messages = counted]
    /\ UNCHANGED <<documents, files, collection, chat_sessions,
                   chat_messages, sends, clock>>
    /\ UNCHANGED <<identVars, streamVars, configVars>>

\* get_session_messages: filtered by session_id and tenant_id
get_session_messages(tenant_id, session_id) ==
    /\ LET messages == {m \in chat_messages :
                          m.session_id = session_id
                          /\ m.tenant_id = tenant_id}
       IN last' = [Operation("get_session_messages", tenant_id, "ok")
                     EXCEPT !.messages = messages]
    /\ UNCHANGED <<documents, files, collection, chat_sessions,
                   chat_messages, sends, clock>>
    /\ UNCHANGED <<identVars, streamVars, configVars>>

\* variant of submit_feedback that looks the message up by its id alone
submit_feedback_AnyTenant(tenant_id, message_id, feedback_value) ==
    /\ LET found == {m \in chat_messages : m.id = message_id}
       IN IF found = {}
          THEN /\ last' = [Operation("submit_feedback", tenant_id, "not_found")
                             EXCEPT !.list = <<message_id, feedback_value>>]
               /\ chat_messages' = chat_messages
          ELSE /\ chat_messages' =
                     (chat_messages \ found) \cup
                     {[m EXCEPT !.feedback = feedback_value] : m \in found}
               /\ last' = [Operation("submit_feedback", tenant_id, "ok")
                             EXCEPT !.messages = found,
                                    !.list = <<message_id, feedback_value>>]
    /\ UNCHANGED <<documents, files, collection, chat_sessions, sends, clock>>
    /\ UNCHANGED <<identVars, streamVars, configVars>>

\* submit_feedback ('positive' is stored as 1, 'negative' as -1): 404
\* unless the message exists and is the tenant's
submit_feedback(tenant_id, message_id, feedback_value) ==
    /\ LET found == {m \in chat_messages :
                       m.id = message_id /\ m.tenant_id = tenant_id}
       IN IF found = {}
          THEN /\ last' = [Operation("submit_feedback", tenant_id, "not_found")
                             EXCEPT !.list = <<message_id, feedback_value>>]
               /\ chat_messages' = chat_messages
          ELSE /\ chat_messages' =
                     (chat_messages \ found) \cup
                     {[m EXCEPT !.feedback = feedback_value] : m \in found}
               /\ last' = [Operation("submit_feedback", tenant_id, "ok")
                             EXCEPT !.messages = found,
                                    !.list = <<message_id, feedback_value>>]
    /\ UNCHANGED <<documents, files, collection, chat_sessions, sends, clock>>
    /\ UNCHANGED <<identVars, streamVars, configVars>>

\* the counts get_feedback_stats and get_feedback_trends compute from a
\* set of ChatMessage rows
FeedbackCounts(messages) ==
    [total |-> Cardinality(messages),
     positive |-> Cardinality({m \in messages : m.feedback = 1}),
     negative |-> Cardinality({m \in messages : m.feedback = -1})]

RECURSIVE Gcd(_, _)
\* Python's true division total_rating / total_messages, kept exact: the
\* quotient as the fraction <<numerator, denominator>> in lowest terms
Gcd(a, b) == IF b = 0 THEN a ELSE Gcd(b, a % b)

TrueDivide(a, b) ==
    LET abs == IF a < 0 THEN 0 - a ELSE a
        g == Gcd(abs, b)
    IN <<a \div g, b \div g>>

\* average_rating = total_rating / total_messages if total_messages > 0
\* else 0, with total_rating = positive_feedback - negative_feedback
average_rating(counts) ==
    IF counts.total > 0
    THEN TrueDivide(counts.positive - counts.negative, counts.total)
    ELSE <<0, 1>>

\* variant of get_feedback_stats whose average_rating leaves the negative
\* feedback out
get_feedback_stats_PositiveShare(tenant_id) ==
    /\ LET messages == {m \in chat_messages : m.tenant_id = tenant_id}
           counts == FeedbackCounts(messages)
       IN last' = [Operation("get_feedback_stats", tenant_id, "ok")
                     EXCEPT !.stats =
                        [total |-> counts.total,
                         positive |-> counts.positive,
                         negative |-> counts.negative,
                         average_rating |->
                            average_rating([counts EXCEPT !.negative = 0])]]
    /\ UNCHANGED <<documents, files, collection, chat_sessions,
                   chat_messages, sends, clock>>
    /\ UNCHANGED <<identVars, streamVars, configVars>>

\* get_feedback_stats: every count is filtered by tenant_id (the
\* percentages are quotients of these counts, as average_rating is)
get_feedback_stats(tenant_id) ==
    /\ LET messages == {m \in chat_messages : m.tenant_id = tenant_id}
           counts == FeedbackCounts(messages)
       IN last' = [Operation("get_feedback_stats", tenant_id, "ok")
                     EXCEPT !.stats =
                        [total |-> counts.total,
                         positive |-> counts.positive,
                         negative |-> counts.negative,
                         average_rating |-> average_rating(counts)]]
    /\ UNCHANGED <<documents, files, collection, chat_sessions,
                   chat_messages, sends, clock>>
    /\ UNCHANGED <<identVars, streamVars, configVars>>

\* get_feedback_trends: one bucket per day, filled from the ChatMessage
\* rows created on that day; the query has no tenant filter.  All messages
\* of the model are created on the current day, so the response is that
\* day's bucket.
get_feedback_trends(tenant_id) ==
    /\ last' = [Operation("get_feedback_trends", tenant_id, "ok")
                  EXCEPT !.stats = FeedbackCounts(chat_messages)]
    /\ UNCHANGED <<documents, files, collection, chat_sessions,
                   chat_messages, sends, clock>>
    /\ UNCHANGED <<identVars, streamVars, configVars>>

(***************************************************************************)
(* Part III - documents and the vector index                               *)
(***************************************************************************)
Filenames == {"a.txt", "b.txt", "c.txt"}

\* the chunks processor.process_document derives from a stored file, each
\* with its sequential id and its text
FileChunks(path) ==
    IF path = "a.txt"
    THEN {[id |-> 0, content |-> <<path, 0>>],
          [id |-> 1, content |-> <<path, 1>>]}
    ELSE {[id |-> 0, content |-> <<path, 0>>]}

\* Document rows the store can hold when the service starts
SeedDocumentA ==
    [id |-> 1, tenant_id |-> "tA", filename |-> "a.txt",
     file_path |-> "a.txt", is_processed |-> FALSE, indexed |-> FALSE]

SeedDocumentB ==
    [id |-> 2, tenant_id |-> "tB", filename |-> "b.txt",
     file_path |-> "b.txt", is_processed |-> FALSE, indexed |-> FALSE]

\* the Document row upload_document builds: no tenant_id is given
NewDocument(filename) ==
    [id |-> NextId(documents), tenant_id |-> NoId, filename |-> filename,
     file_path |-> filename, is_processed |-> FALSE, indexed |-> FALSE]

\* documents.tenant_id is declared nullable=False
DocumentInsertOk(row) == row.tenant_id # NoId

\* one entry per chunk, keyed doc_{document_id}_chunk_{chunk_id}
IndexEntries(document_id, chunks, filename) ==
    {[document_id |-> document_id, chunk_id |-> c.id,
      content |-> c.content, filename |-> filename] : c \in chunks}

\* the id under which the collection keeps an entry
EntryId(e) == <<e.document_id, e.chunk_id>>

\* Collection.add: an entry whose id the collection already holds is
\* skipped (the store logs it and keeps the entry it has)
collection_add(entries) ==
    collection \cup
    {e \in entries : \A x \in collection : EntryId(x) # EntryId(e)}

\* the items Collection.get accepts in include (ids are always returned)
GetInclude == {"documents", "embeddings", "metadatas", "uris", "data"}

\* Collection.get(where={'document_id': ...}, include=...): raises
\* ValueError for an include item it does not know
collection_get(document_id, include) ==
    IF include \subseteq GetInclude
    THEN [raised |-> FALSE,
          entries |-> {e \in collection : e.document_id = document_id}]
    ELSE [raised |-> TRUE, entries |-> {}]

\* VectorStore.index_document: embeds all chunks in one call, then adds
\* them in one call; returns the new collection and the success flag
index_document(document_id, chunks, filename, embedOk, addOk) ==
    IF chunks = {} \/ ~embedOk \/ ~addOk
    THEN [collection |-> collection, indexed |-> FALSE]
    ELSE [collection |->
              collection_add(IndexEntries(document_id, chunks, filename)),
          indexed |-> TRUE]

\* chunks.sort(key=lambda x: x['chunk_id'])
RECURSIVE SortByChunkId(_)
SortByChunkId(entries) ==
    IF entries = {} THEN <<>>
    ELSE LET least == CHOOSE e \in entries :
                         \A x \in entries : e.chunk_id <= x.chunk_id
         IN <<[chunk_id |-> least.chunk_id, content |-> least.content]>>
            \o SortByChunkId(entries \ {least})

\* VectorStore.get_document_chunks: the document's entries in ascending
\* chunk_id; [] when the store call raises
VectorStore_get_document_chunks(document_id) ==
    LET results == collection_get(document_id, {"documents", "metadatas"})
    IN IF results.raised THEN <<>> ELSE SortByChunkId(results.entries)

\* VectorStore.delete_document: looks the ids up with include=['ids'],
\* deletes them and returns True; False when there are none or when a
\* store call raises
VectorStore_delete_document(document_id) ==
    LET results == collection_get(document_id, {"ids"})
    IN IF results.raised \/ results.entries = {}
       THEN [collection |-> collection, deleted |-> FALSE]
       ELSE [collection |-> collection \ results.entries, deleted |-> TRUE]

NoFilter == 0

\* the where clause search_similar builds from filter_metadata
MatchesFilter(entry, filter_metadata) ==
    filter_metadata = NoFilter \/ entry.document_id = filter_metadata

\* VectorStore.search_similar: the possible results, each the n_results
\* nearest matching entries; [] when the embedding call raises
search_similar(n_results, filter_metadata, embedOk) ==
    IF ~embedOk THEN {{}}
    ELSE LET matching ==
               {e \in collection : MatchesFilter(e, filter_metadata)}
         IN IF Cardinality(matching) <= n_results THEN {matching}
            ELSE {res \in SUBSET matching : Cardinality(res) = n_results}

\* upload_document: the file is written, validated, and a Document row
\* without tenant_id is committed
upload_document(tenant_id, filename) ==
    /\ \E valid \in BOOLEAN :
         IF ~valid
         THEN /\ files' = files \ {filename}
              /\ documents' = documents
              /\ last' = Operation("upload_document", tenant_id, "invalid")
         ELSE LET document == NewDocument(filename) IN
              /\ files' = files \cup {filename}
              /\ IF DocumentInsertOk(document)
                 THEN /\ documents' = documents \cup {document}
                      /\ last' = [Operation("upload_document", tenant_id,
                                            "uploaded")
                                    EXCEPT !.documents = {document}]
                 ELSE /\ documents' = documents
                      /\ last' = [Operation("upload_document", tenant_id,
                                            "error")
                                    EXCEPT !.documents = {document}]
    /\ UNCHANGED <<collection, chat_sessions, chat_messages, sends, clock>>
    /\ UNCHANGED <<identVars, streamVars, configVars>>

\* list_documents: db.query(Document).offset(skip).limit(limit).all()
list_documents(tenant_id) ==
    /\ last' = [Operation("list_documents", tenant_id, "ok")
                  EXCEPT !.documents = documents]
    /\ UNCHANGED <<documents, files, collection, chat_sessions,
                   chat_messages, sends, clock>>
    /\ UNCHANGED <<identVars, streamVars, configVars>>

\* get_document: Document.id == document_id
get_document(tenant_id, document_id) ==
    /\ LET found == {d \in documents : d.id = document_id}
       IN last' = [Operation("get_document", tenant_id,
                             IF found = {} THEN "not_found" ELSE "ok")
                     EXCEPT !.documents = found]
    /\ UNCHANGED <<documents, files, collection, chat_sessions,
                   chat_messages, sends, clock>>
    /\ UNCHANGED <<identVars, streamVars, configVars>>

\* delete_document: the steps the handler performs, in its order: the
\* index entries (if processed; the flag VectorStore.delete_document
\* returns is ignored), the file (if it exists), the row.  An exception in
\* a step ends the handler with HTTP 500.
delete_document(tenant_id, document_id) ==
    /\ LET found == {d \in documents : d.id = document_id}
       IN IF found = {}
          THEN /\ last' = Operation("delete_document", tenant_id, "not_found")
               /\ UNCHANGED <<documents, files, collection>>
          ELSE \E removeOk \in BOOLEAN, commitOk \in BOOLEAN :
               LET document == CHOOSE d \in found : TRUE
                   exists == document.file_path \in files
                   indexStep == IF document.is_processed
                                THEN <<"index">> ELSE <<>>
                   fileStep == IF exists THEN <<"file">> ELSE <<>>
                   fileFailed == exists /\ ~removeOk
                   rowStep == IF fileFailed THEN <<>> ELSE <<"row">>
               IN /\ collection' =
                        IF document.is_processed
                        THEN VectorStore_delete_document(document_id).collection
                        ELSE collection
                  /\ files' = IF exists /\ removeOk
                              THEN files \ {document.file_path} ELSE files
                  /\ documents' = IF ~fileFailed /\ commitOk
                                  THEN documents \ {document} ELSE documents
                  /\ last' = [Operation("delete_document", tenant_id,
                                        IF ~fileFailed /\ commitOk
                                        THEN "ok" ELSE "error")
                                EXCEPT !.documents = {document},
                                       !.list = indexStep \o fileStep
                                                \o rowStep]
    /\ UNCHANGED <<chat_sessions, chat_messages, sends, clock>>
    /\ UNCHANGED <<identVars, streamVars, configVars>>

\* process_document: parse and chunk the file, index the chunks, then set
\* is_processed (whether or not the indexing succeeded) and commit; a
\* failed commit ends the handler with HTTP 500 after the indexing
process_document(tenant_id, document_id) ==
    /\ LET found == {d \in documents : d.id = document_id}
       IN IF found = {}
          THEN /\ last' = Operation("process_document", tenant_id, "not_found")
               /\ UNCHANGED <<documents, collection>>
          ELSE LET document == CHOOSE d \in found : TRUE IN
               IF document.is_processed
               THEN /\ last' = [Operation("process_document", tenant_id,
                                          "already_processed")
                                  EXCEPT !.documents = {document}]
                    /\ UNCHANGED <<documents, collection>>
               ELSE IF document.file_path \notin files
               THEN /\ last' = [Operation("process_document", tenant_id,
                                          "error")
                                  EXCEPT !.documents = {document}]
                    /\ UNCHANGED <<documents, collection>>
               ELSE \E embedOk \in EmbedOutcomes, addOk \in BOOLEAN,
                       commitOk \in BOOLEAN :
                    LET result == index_document(document_id,
                                     FileChunks(document.file_path),
                                     document.filename, embedOk, addOk)
                    IN /\ collection' = result.collection
                       /\ documents' =
                            IF commitOk
                            THEN (documents \ {document}) \cup
                                 {[document EXCEPT !.is_processed = TRUE,
                                                   !.indexed = result.indexed]}
                            ELSE documents
                       /\ last' = [Operation("process_document", tenant_id,
                                             IF commitOk THEN "ok"
                                             ELSE "error")
                                     EXCEPT !.documents = {document}]
    /\ UNCHANGED <<files, chat_sessions, chat_messages, sends, clock>>
    /\ UNCHANGED <<identVars, streamVars, configVars>>

\* delete_document_from_vector: 404 without the row, HTTP 500 unless
\* VectorStore.delete_document returns True
delete_document_from_vector(tenant_id, document_id) ==
    /\ LET found == {d \in documents : d.id = document_id}
           result == VectorStore_delete_document(document_id)
       IN IF found = {}
          THEN /\ last' = Operation("delete_document_from_vector",
                                    tenant_id, "not_found")
               /\ collection' = collection
          ELSE /\ collection' = result.collection
               /\ last' = [Operation("delete_document_from_vector", tenant_id,
                                     IF result.deleted THEN "ok" ELSE "error")
                             EXCEPT !.documents = found]
    /\ UNCHANGED <<documents, files, chat_sessions, chat_messages, sends,
                   clock>>
    /\ UNCHANGED <<identVars, streamVars, configVars>>

\* search_documents: search_similar with the caller's n_results and filter
search_documents(tenant_id, n_results, filter_metadata) ==
    /\ \E embedOk \in EmbedOutcomes :
         \E results \in search_similar(n_results, filter_metadata, embedOk) :
            last' = [Operation("search_documents", tenant_id, "ok")
                       EXCEPT !.chunks = results]
    /\ UNCHANGED <<documents, files, collection, chat_sessions,
                   chat_messages, sends, clock>>
    /\ UNCHANGED <<identVars, streamVars, configVars>>

\* "I couldn't find any relevant information in your documents to answer
\* this question. Please try rephrasing your query or upload relevant
\* documents."
NoRelevantInformation == <<"I">>

\* f"Sorry, I encountered an error while processing your request: ..."
RagErrorText == <<"R">>

\* _prepare_citations: one citation per context chunk
\* (named prepare_citations here: an identifier cannot start with _)
prepare_citations(chunks) ==
    {[document_id |-> e.document_id, filename |-> e.filename,
      chunk_index |-> e.chunk_id] : e \in chunks}

\* variant of generate_rag_response that asks the model without context
generate_rag_response_AskAnyway(chunks, modelOk) ==
    [keys |-> {"success", "response", "context_used", "citations",
               "chunks_retrieved"},
     success |-> TRUE, response |-> RagAnswer, context_used |-> chunks,
     citations |-> prepare_citations(chunks),
     chunks_retrieved |-> Cardinality(chunks), model_calls |-> 1]

\* LLMService.generate_rag_response after the retrieval returned chunks:
\* the dictionary it returns (keys lists the entries the dictionary has)
\* and the number of calls made to the language model
generate_rag_response(chunks, modelOk) ==
    IF chunks = {}
    THEN [keys |-> {"success", "response", "context_used", "citations",
                    "chunks_retrieved"},
          success |-> FALSE, response |-> NoRelevantInformation,
          context_used |-> {}, citations |-> {},
          chunks_retrieved |-> 0, model_calls |-> 0]
    ELSE IF ~modelOk
    THEN [keys |-> {"success", "response", "context_used"},
          success |-> FALSE, response |-> RagErrorText,
          context_used |-> {}, citations |-> {},
          chunks_retrieved |-> 0, model_calls |-> 1]
    ELSE [keys |-> {"success", "response", "context_used", "citations",
                    "chunks_retrieved"},
          success |-> TRUE, response |-> RagAnswer,
          context_used |-> chunks, citations |-> prepare_citations(chunks),
          chunks_retrieved |-> Cardinality(chunks), model_calls |-> 1]

\* rag_query: LLMService() comes first, and its ValueError becomes HTTP
\* 500; generate_rag_response retrieves n_context_chunks entries and
\* answers from them; without entries it answers with the canned message.
\* list records a "Search failed" that search_similar logged and swallowed
rag_query(tenant_id, n_context_chunks) ==
    /\ IF LLMService_init(openai_api_key).raised
       THEN last' = Operation("rag_query", tenant_id, "error")
       ELSE \E embedOk \in EmbedOutcomes, modelOk \in BOOLEAN :
              \E context \in search_similar(n_context_chunks, NoFilter,
                                            embedOk) :
                 last' = [Operation("rag_query", tenant_id,
                                    IF context = {} THEN "no_context"
                                    ELSE "ok")
                            EXCEPT !.chunks = context,
                                   !.rag = generate_rag_response(context,
                                                                 modelOk),
                                   !.list = IF embedOk THEN <<>>
                                            ELSE <<"embedding_raised">>]
    /\ UNCHANGED <<documents, files, collection, chat_sessions,
                   chat_messages, sends, clock>>
    /\ UNCHANGED <<identVars, streamVars, configVars>>

\* TenantProvisioning.delete_tenant: the tenant's rows and the tenant row
\* go in one commit; _cleanup_tenant_directories then removes the
\* directories upload_dir/<tenant_id> and chroma_db_path/<tenant_id>,
\* which hold neither the uploaded files nor the collection
delete_tenant(tenant_id) ==
    /\ LET found == {t \in tenants : t.id = tenant_id}
       IN IF found = {}
          THEN /\ last' = Operation("delete_tenant", tenant_id, "false")
               /\ UNCHANGED <<tenants, documents, chat_messages,
                              chat_sessions>>
          ELSE /\ documents' = {d \in documents : d.tenant_id # tenant_id}
               /\ chat_messages' =
                     {m \in chat_messages : m.tenant_id # tenant_id}
               /\ chat_sessions' =
                     {x \in chat_sessions : x.tenant_id # tenant_id}
               /\ tenants' = tenants \ found
               /\ last' = Operation("delete_tenant", tenant_id, "true")
    /\ UNCHANGED <<files, collection, sends, clock>>
    /\ UNCHANGED <<reqs, dbFaults, streamVars, configVars>>

(***************************************************************************)
(* Part III - specification                                                *)
(***************************************************************************)
\* the tenants the store is set up with
ProvisionedIds == {TenantA.id, TenantB.id}

DocumentIds == {1, 2, 3}
ResultCounts == {1, 5}
FeedbackValues == {1, -1}

\* the message ids a caller can name: those in use and one beyond
MessageIds == {1, 2, 3}

\* the conversation store under two tenants; no documents
InitChat ==
    /\ tenants = {TenantA, TenantB}
    /\ reqs = <<>> /\ dbFaults = FALSE
    /\ documents = {} /\ files = {} /\ collection = {}
    /\ chat_sessions = {} /\ chat_messages = {}
    /\ sends = [r \in 1..NumSends |-> NewSend]
    /\ clock = 0
    /\ last = NoOperation
    /\ StreamIdle /\ Configured

NextChat ==
    \/ \E r \in DOMAIN sends : SendCheck(r)
    \/ \E r \in DOMAIN sends : SendPersist(r)
    \/ \E r \in DOMAIN sends : Abandon(r)
    \/ \E t \in ProvisionedIds : delete_tenant(t)
    \/ \E t \in ResolvedTenants : get_chat_sessions(t)
    \/ \E t \in ResolvedTenants, sid \in SessionInputs :
          get_session_messages(t, sid)

SpecChat == InitChat /\ [][NextChat]_vars

\* the store after tenant A has sent a message in a new session and
\* tenant B has sent one naming that session
SeedSession ==
    [tenant_id |-> "tA", session_id |-> "u1",
     created_at |-> 1, updated_at |-> 1]

SeedMessageA ==
    [id |-> 1, tenant_id |-> "tA", session_id |-> "u1", message |-> 1,
     response |-> MockResponse("tA"), feedback |-> NoFeedback]

SeedMessageB ==
    [id |-> 2, tenant_id |-> "tB", session_id |-> "u1", message |-> 2,
     response |-> MockResponse("tB"), feedback |-> NoFeedback]

InitFeedback ==
    /\ tenants = {TenantA, TenantB}
    /\ reqs = <<>> /\ dbFaults = FALSE
    /\ documents = {} /\ files = {} /\ collection = {}
    /\ chat_sessions = {SeedSession}
    /\ chat_messages \in {{SeedMessageA}, {SeedMessageA, SeedMessageB}}
    /\ sends = <<>>
    /\ clock = 2
    /\ last = NoOperation
    /\ StreamIdle /\ Configured

\* feedback submissions and the aggregate queries over that store
NextFeedback ==
    \/ \E t \in ResolvedTenants, m \in MessageIds, f \in FeedbackValues :
          submit_feedback(t, m, f)
    \/ \E t \in ResolvedTenants : get_feedback_stats(t)
    \/ \E t \in ResolvedTenants : get_feedback_trends(t)
    \/ \E t \in ResolvedTenants : get_chat_sessions(t)

SpecFeedback == InitFeedback /\ [][NextFeedback]_vars

(***************************************************************************)
(* Part III - the vector store on its own                                  *)
(***************************************************************************)
ChunkTexts == {"x", "y"}

\* the chunk lists a caller hands to index_document: ids 0, 1, ... in
\* sequence, each chunk with some text
ChunkInputs ==
    UNION {{ {[id |-> i, content |-> f[i]] : i \in 0..(n - 1)} :
               f \in [0..(n - 1) -> ChunkTexts]} : n \in 0..MaxChunks}

IndexedIds == {1, 2}

\* a call of VectorStore.index_document
IndexCall(document_id, chunks) ==
    /\ \E embedOk \in EmbedOutcomes, addOk \in BOOLEAN :
         LET result == index_document(document_id, chunks, "a.txt",
                                      embedOk, addOk)
         IN /\ collection' = result.collection
            /\ last' = [Operation("index_document", NoId,
                                  IF result.indexed THEN "true" ELSE "false")
                          EXCEPT !.document_id = document_id,
                                 !.chunks = IndexEntries(document_id, chunks,
                                                         "a.txt"),
                                 !.list = <<embedOk, addOk>>]
    /\ UNCHANGED <<documents, files, chat_sessions, chat_messages, sends,
                   clock>>
    /\ UNCHANGED <<identVars, streamVars, configVars>>

\* a call of VectorStore.get_document_chunks
GetChunksCall(document_id) ==
    /\ last' = [Operation("get_document_chunks", NoId, "returned")
                  EXCEPT !.document_id = document_id,
                         !.list = VectorStore_get_document_chunks(document_id)]
    /\ UNCHANGED <<documents, files, collection, chat_sessions,
                   chat_messages, sends, clock>>
    /\ UNCHANGED <<identVars, streamVars, configVars>>

\* a call of VectorStore.delete_document
DeleteCall(document_id) ==
    /\ LET result == VectorStore_delete_document(document_id)
       IN /\ collection' = result.collection
          /\ last' = [Operation("vector_delete_document", NoId,
                                IF result.deleted THEN "true" ELSE "false")
                        EXCEPT !.document_id = document_id]
    /\ UNCHANGED <<documents, files, chat_sessions, chat_messages, sends,
                   clock>>
    /\ UNCHANGED <<identVars, streamVars, configVars>>

\* an empty collection, as _initialize_chromadb creates it
InitIndex ==
    /\ tenants = {} /\ reqs = <<>> /\ dbFaults = FALSE
    /\ documents = {} /\ files = {} /\ collection = {}
    /\ chat_sessions = {} /\ chat_messages = {} /\ sends = <<>>
    /\ clock = 0
    /\ last = NoOperation
    /\ StreamIdle /\ Configured

NextIndex ==
    \/ \E d \in IndexedIds, chunks \in ChunkInputs : IndexCall(d, chunks)
    \/ \E d \in IndexedIds : GetChunksCall(d)
    \/ \E d \in IndexedIds : DeleteCall(d)

SpecIndex == InitIndex /\ [][NextIndex]_vars

\* the documents of two tenants, their files and the vector index
InitDocs ==
    /\ tenants = {TenantA, TenantB}
    /\ reqs = <<>> /\ dbFaults = FALSE
    /\ documents \in SUBSET {SeedDocumentA, SeedDocumentB}
    /\ files = {d.file_path : d \in documents}
    /\ collection = {}
    /\ chat_sessions = {} /\ chat_messages = {} /\ sends = <<>>
    /\ clock = 0
    /\ last = NoOperation
    /\ StreamIdle
    /\ openai_api_key \in OpenAIKeys

NextDocs ==
    \/ \E t \in ResolvedTenants, f \in Filenames : upload_document(t, f)
    \/ \E t \in ResolvedTenants : list_documents(t)
    \/ \E t \in ResolvedTenants, d \in DocumentIds : get_document(t, d)
    \/ \E t \in ResolvedTenants, d \in DocumentIds : delete_document(t, d)
    \/ \E t \in ResolvedTenants, d \in DocumentIds : process_document(t, d)
    \/ \E t \in ResolvedTenants, d \in DocumentIds :
          delete_document_from_vector(t, d)
    \/ \E t \in ResolvedTenants, n \in ResultCounts,
          f \in {NoFilter} \cup DocumentIds : search_documents(t, n, f)
    \/ \E t \in ResolvedTenants, n \in ResultCounts : rag_query(t, n)
    \/ \E t \in ProvisionedIds : delete_tenant(t)

SpecDocs == InitDocs /\ [][NextDocs]_vars

(***************************************************************************)
(* Tenant provisioning against the tenant middleware                       *)
(***************************************************************************)
\* the keys regenerate_api_key issues, in the order of issue:
\* f"sk_{uuid.uuid4().hex[:32]}" is a key that was never issued before
KeyPool == <<"sk1", "sk2", "sk3", "sk4">>

IssuedKeys == {KeyPool[i] : i \in 1..MaxRegenerations}

\* the number of keys issued so far: the key issued last is still the key
\* of the tenant it was issued to, or a later key has been issued
Issued ==
    IF \E i \in DOMAIN KeyPool : \E t \in tenants : t.api_key = KeyPool[i]
    THEN CHOOSE i \in DOMAIN KeyPool :
            /\ \E t \in tenants : t.api_key = KeyPool[i]
            /\ \A j \in DOMAIN KeyPool :
                  (\E t \in tenants : t.api_key = KeyPool[j]) => j <= i
    ELSE 0

\* variant of regenerate_api_key that returns the new key without storing
\* it
regenerate_api_key_Unsaved(tenant_id) ==
    /\ Issued < MaxRegenerations
    /\ LET found == {t \in tenants : t.id = tenant_id}
           new_api_key == KeyPool[Issued + 1]
       IN IF found = {}
          THEN last' = Operation("regenerate_api_key", tenant_id, "not_found")
          ELSE last' = [Operation("regenerate_api_key", tenant_id, "ok")
                          EXCEPT !.list =
                             <<(CHOOSE t \in found : TRUE).api_key,
                               new_api_key>>]
    /\ tenants' = tenants
    /\ UNCHANGED <<documents, files, collection, chat_sessions,
                   chat_messages, sends, clock>>
    /\ UNCHANGED <<reqs, dbFaults, streamVars, configVars>>

\* TenantProvisioning.regenerate_api_key: None when the tenant does not
\* exist; otherwise the new key replaces the tenant's key in one commit
\* and is returned. list records the key replaced and the key returned.
regenerate_api_key(tenant_id) ==
    /\ Issued < MaxRegenerations
    /\ LET found == {t \in tenants : t.id = tenant_id}
           new_api_key == KeyPool[Issued + 1]
       IN IF found = {}
          THEN /\ tenants' = tenants
               /\ last' = Operation("regenerate_api_key", tenant_id,
                                    "not_found")
          ELSE /\ tenants' = (tenants \ found) \cup
                     {[t EXCEPT !.api_key = new_api_key] : t \in found}
               /\ last' = [Operation("regenerate_api_key", tenant_id, "ok")
                             EXCEPT !.list =
                                <<(CHOOSE t \in found : TRUE).api_key,
                                  new_api_key>>]
    /\ UNCHANGED <<documents, files, collection, chat_sessions,
                   chat_messages, sends, clock>>
    /\ UNCHANGED <<reqs, dbFaults, streamVars, configVars>>

\* the fields update_tenant_config sets; a keyword outside the list is
\* skipped
allowed_fields ==
    {"name", "domain", "max_documents", "max_chat_messages",
     "max_storage_mb", "features_enabled", "is_active"}

\* the keyword arguments the callers of the specification pass
ConfigUpdates ==
    {<<"is_active", TRUE>>, <<"is_active", FALSE>>, <<"api_key", "k1">>}

\* TenantProvisioning.update_tenant_config: None when the tenant does not
\* exist; otherwise the allowed fields are set and committed
update_tenant_config(tenant_id, field, value) ==
    /\ LET found == {t \in tenants : t.id = tenant_id}
       IN IF found = {}
          THEN /\ tenants' = tenants
               /\ last' = Operation("update_tenant_config", tenant_id,
                                    "not_found")
          ELSE /\ tenants' =
                     IF field \in allowed_fields
                     THEN (tenants \ found) \cup
                          {[t EXCEPT ![field] = value] : t \in found}
                     ELSE tenants
               /\ last' = Operation("update_tenant_config", tenant_id, "ok")
    /\ UNCHANGED <<documents, files, collection, chat_sessions,
                   chat_messages, sends, clock>>
    /\ UNCHANGED <<reqs, dbFaults, streamVars, configVars>>

\* requests that present a bearer key: the key a tenant was created with
\* or one issued since
BearerRequests ==
    {NewRequest([scheme |-> "bearer", credentials |-> k], <<>>, NoId, NoId,
                FALSE) : k \in ApiKeys \cup IssuedKeys}

\* one request that identifies itself by a key, against any state of the
\* tenant table, while keys are regenerated and tenants are deactivated
\* and reactivated
InitKeys ==
    /\ tenants \in TenantTables
    /\ reqs \in [{1} -> BearerRequests]
    /\ dbFaults = TRUE
    /\ documents = {} /\ files = {} /\ collection = {}
    /\ chat_sessions = {} /\ chat_messages = {} /\ sends = <<>>
    /\ clock = 0
    /\ last = NoOperation
    /\ StreamIdle /\ Configured

NextKeys ==
    \/ \E t \in TenantIds : regenerate_api_key(t)
    \/ \E t \in TenantIds, u \in ConfigUpdates :
          update_tenant_config(t, u[1], u[2])
    \/ \E r \in DOMAIN reqs : Strategy1(r)
    \/ \E r \in DOMAIN reqs : Strategy2(r)
    \/ \E r \in DOMAIN reqs : Strategy3(r)
    \/ \E r \in DOMAIN reqs : Strategy4(r)
    \/ \E r \in DOMAIN reqs : Strategy5(r)
    \/ \E r \in DOMAIN reqs : LookupByName(r)
    \/ \E r \in DOMAIN reqs : LookupById(r)
    \/ \E r \in DOMAIN reqs : LookupAny(r)
    \/ \E r \in DOMAIN reqs : CreateDefault(r)
    \/ \E r \in DOMAIN reqs : Refetch(r)

SpecKeys == InitKeys /\ [][NextKeys]_vars

(***************************************************************************)
(* Part III - properties                                                   *)
(***************************************************************************)
\* the rows of a table that belong to a tenant
RowsOf(rows, tenant_id) == {x \in rows : x.tenant_id = tenant_id}

MaxChatMessages(tenant_id) ==
    (CHOOSE t \in tenants : t.id = tenant_id).max_chat_messages

MaxDocuments(tenant_id) ==
    (CHOOSE t \in tenants : t.id = tenant_id).max_documents

\* C1: no operation performed on behalf of a tenant reads, returns, modifies
\* or deletes a Document, ChatMessage or ChatSession row of another tenant:
\* every row the last operation touched carries the tenant id of its caller.
C1_TenantIsolation ==
    /\ \A d \in last.documents : d.tenant_id = last.actor
    /\ \A m \in last.messages : m.tenant_id = last.actor
    /\ \A x \in last.sessions : x.tenant_id = last.actor

C3_RejectedBeforeSideEffects ==
    [][\A r \in DOMAIN sends :
          (sends[r].pc = "new" /\ sends'[r].pc # "new") =>
              IF sends'[r].pc = "done"
              THEN /\ sends'[r].outcome = "limit_exceeded"
                   /\ last'.outcome = "limit_exceeded"
                   /\ Cardinality(RowsOf(chat_messages, last'.actor)) + 1
                        > MaxChatMessages(last'.actor)
                   /\ chat_messages' = chat_messages
                   /\ chat_sessions' = chat_sessions
              ELSE Cardinality(RowsOf(chat_messages, sends'[r].tenant_id)) + 1
                     <= MaxChatMessages(sends'[r].tenant_id)]_vars

\* a streaming chat-send of a tenant that holds max_chat_messages messages
\* has been rejected while sessions and messages exist
C3_Witness ==
    /\ last.op = "stream" /\ last.outcome = "limit_exceeded"
    /\ Cardinality(RowsOf(chat_messages, last.actor))
         = MaxChatMessages(last.actor)
    /\ RowsOf(chat_sessions, last.actor) # {}
    /\ \E r \in DOMAIN sends : sends[r].outcome = "limit_exceeded"

\* C4: an upload by a tenant below max_documents succeeds and stores the
\* tenant's Document row; an upload by a tenant that already holds
\* max_documents is rejected with quota-exceeded, and neither a Document
\* row nor a file is stored for it.
C4_UploadQuota ==
    [][(last'.op = "upload_document" /\ last'.outcome # "invalid") =>
          IF Cardinality(RowsOf(documents, last'.actor)) + 1
               <= MaxDocuments(last'.actor)
          THEN /\ last'.outcome = "uploaded"
               /\ Cardinality(RowsOf(documents', last'.actor))
                    = Cardinality(RowsOf(documents, last'.actor)) + 1
          ELSE /\ last'.outcome = "quota_exceeded"
               /\ documents' = documents
               /\ files' \subseteq files]_vars

\* C11: in the streaming chat-send a ChatMessage is stored only by the step
\* that produces the terminal complete or error event, a request stores at
\* most one ChatMessage (the storing step finishes the request and a
\* finished request takes no further step), and an abandoned stream stores
\* none.
C11_PersistOnTerminalOnly ==
    [][\A r \in DOMAIN sends :
          /\ sends[r].pc = "done" => sends'[r] = sends[r]
          /\ (sends[r].kind = "stream" /\ sends'[r] # sends[r]) =>
                IF sends'[r].terminal \in {"complete", "error"}
                THEN /\ sends'[r].pc = "done"
                     /\ Cardinality(chat_messages') =
                          Cardinality(chat_messages) + 1
                     /\ chat_messages \subseteq chat_messages'
                ELSE /\ sends'[r].outcome = "abandoned"
                     /\ chat_messages' = chat_messages]_vars

\* one stream was abandoned and stored nothing while another ran to its
\* terminal event and stored its message
C11_Witness ==
    /\ \E r \in DOMAIN sends : sends[r].outcome = "abandoned"
    /\ \E r \in DOMAIN sends :
          sends[r].outcome = "ok" /\ sends[r].terminal = "error"
    /\ Cardinality(chat_messages) = 1

\* C12: when the retrieval returns no chunk, generate_rag_response returns
\* (it does not raise) the fixed no-relevant-information message with
\* success false, empty context_used, empty citations and
\* chunks_retrieved 0, and it has not called the language model.
C12_EmptyRetrieval ==
    (last.op = "rag_query" /\ last.outcome = "no_context"
        /\ last.chunks = {}) =>
        /\ last.rag.keys = {"success", "response", "context_used",
                            "citations", "chunks_retrieved"}
        /\ last.rag.success = FALSE
        /\ last.rag.response = NoRelevantInformation
        /\ last.rag.context_used = {}
        /\ last.rag.citations = {}
        /\ last.rag.chunks_retrieved = 0
        /\ last.rag.model_calls = 0

\* a RAG query found nothing although the index holds entries (the
\* embedding call failed and the search returned the empty list)
C12_Witness ==
    /\ last.op = "rag_query" /\ last.chunks = {}
    /\ collection # {}
    /\ last.rag.response = NoRelevantInformation

\* C13: index_document is all-or-nothing per call: it returns false when
\* chunks is empty or the embedding call raises, a call that returns false
\* leaves the entries of the index unchanged, and after a call that
\* returns true every chunk of the call is stored.
C13_IndexAllOrNothing ==
    [][last'.op = "index_document" =>
          /\ (last'.chunks = {} \/ ~last'.list[1]) => last'.outcome = "false"
          /\ last'.outcome = "false" => collection' = collection
          /\ last'.outcome = "true" => last'.chunks \subseteq collection']_vars

\* C14: indexing a document with N chunks and then calling
\* get_document_chunks for it returns exactly N chunks, in ascending
\* chunk_id, with the contents that were indexed.
C14_IndexThenGetChunks ==
    [][(/\ last.op = "index_document" /\ last.outcome = "true"
        /\ last'.op = "get_document_chunks"
        /\ last'.document_id = last.document_id) =>
          /\ Len(last'.list) = Cardinality(last.chunks)
          /\ last'.list = SortByChunkId(last.chunks)
          /\ \A i \in 1..(Len(last'.list) - 1) :
                last'.list[i].chunk_id < last'.list[i + 1].chunk_id]_vars

\* C15: the first delete_document call on an indexed document returns true
\* and removes its entries; a further call returns false and leaves the
\* index unchanged; get_document_chunks for the document is empty after
\* either.
C15_DeleteTwice ==
    [][last'.op = "vector_delete_document" =>
          /\ IF \E e \in collection : e.document_id = last'.document_id
             THEN last'.outcome = "true"
             ELSE last'.outcome = "false" /\ collection' = collection
          /\ \A e \in collection' : e.document_id # last'.document_id]_vars

SeedOwner(document_id) ==
    IF document_id = SeedDocumentA.id THEN SeedDocumentA.tenant_id
    ELSE IF document_id = SeedDocumentB.id THEN SeedDocumentB.tenant_id
    ELSE NoId

\* C18: once delete_tenant(T) has returned true (T's row is gone), no
\* Document, ChatSession or ChatMessage row with tenant_id T exists and the
\* vector index holds no entry of T's documents, also when a request of T
\* that was resolved before the deletion completes after it.
C18_TenantDeletionCascades ==
    \A t \in ProvisionedIds :
        t \notin ResolvedTenants =>
            /\ RowsOf(documents, t) = {}
            /\ RowsOf(chat_sessions, t) = {}
            /\ RowsOf(chat_messages, t) = {}
            /\ \A e \in collection : SeedOwner(e.document_id) # t

\* C19: submit_feedback by a tenant on a message id that does not exist or
\* that belongs to another tenant is rejected as not-found and leaves the
\* feedback of every ChatMessage unchanged.
C19_FeedbackNotFound ==
    [][last'.op = "submit_feedback" =>
          ((\A m \in chat_messages :
               m.id = last'.list[1] => m.tenant_id # last'.actor) =>
              /\ last'.outcome = "not_found"
              /\ chat_messages' = chat_messages)]_vars

\* feedback on another tenant's message was rejected while that message
\* already carried its owner's feedback
C19_Witness ==
    /\ last.op = "submit_feedback" /\ last.outcome = "not_found"
    /\ \E m \in chat_messages :
          /\ m.id = last.list[1] /\ m.tenant_id # last.actor
          /\ m.feedback # NoFeedback

\* C20: the counts that feedback stats and feedback trends return to a
\* tenant, and the messages counted per session by the session list,
\* include only ChatMessages whose tenant_id is that tenant's.
C20_AggregatesTenantScoped ==
    /\ last.op \in {"get_feedback_stats", "get_feedback_trends"} =>
          \A count \in {"total", "positive", "negative"} :
             last.stats[count]
                = FeedbackCounts(RowsOf(chat_messages, last.actor))[count]
    /\ last.op = "get_chat_sessions" =>
          last.messages \subseteq RowsOf(chat_messages, last.actor)

\* C21: a missing OpenAI credential is fatal at construction of both
\* LLMService and VectorStore and is never deferred to first use: without
\* the key a handler that builds one of them (search_documents builds the
\* VectorStore, rag_query the LLMService) ends with the constructor's
\* error and never with a result of the first use.
C21_FatalAtConstruction ==
    (openai_api_key = NoOpenAIKey
        /\ last.op \in {"search_documents", "rag_query"}) =>
            last.outcome = "error"

\* C22: within one session the order in which ChatMessage rows are
\* persisted (their ids) is the order in which their requests arrived, for
\* every interleaving of the chat-send handlers.
C22_PersistedInArrivalOrder ==
    \A m1 \in chat_messages, m2 \in chat_messages :
        (m1.tenant_id = m2.tenant_id /\ m1.session_id = m2.session_id
            /\ m1.message < m2.message) => m1.id < m2.id

\* C23 as stated: a submission of feedback +1 on an existing message of
\* the tenant raises the positive_feedback that feedback stats reports for
\* the tenant by exactly 1, and the average_rating that feedback stats
\* reports is (positive_feedback - negative_feedback) / total_messages.
C23_PositiveUpByOne ==
    /\ [][(last'.op = "submit_feedback" /\ last'.outcome = "ok"
            /\ last'.list[2] = 1) =>
              FeedbackCounts(RowsOf(chat_messages', last'.actor)).positive
                = FeedbackCounts(RowsOf(chat_messages, last'.actor)).positive
                  + 1]_vars
    /\ [](last.op = "get_feedback_stats" =>
            LET counts == FeedbackCounts(RowsOf(chat_messages, last.actor))
            IN /\ last.stats.positive = counts.positive
               /\ counts.total > 0 =>
                     last.stats.average_rating
                        = TrueDivide(counts.positive - counts.negative,
                                     counts.total))

\* C23: a submission of feedback +1 on an existing message of the tenant
\* leaves total_messages as it is and raises the positive_feedback that
\* feedback stats reports for the tenant by exactly 1 when the message did
\* not carry +1 before (by 0 when it did), lowering negative_feedback by 1
\* when the message carried -1; the average_rating that feedback stats
\* reports is (positive_feedback - negative_feedback) / total_messages.
C23_FeedbackCounted ==
    /\ [][(last'.op = "submit_feedback" /\ last'.outcome = "ok"
            /\ last'.list[2] = 1) =>
              LET before == FeedbackCounts(RowsOf(chat_messages, last'.actor))
                  after == FeedbackCounts(RowsOf(chat_messages', last'.actor))
                  was == (CHOOSE m \in last'.messages : TRUE).feedback
              IN /\ after.total = before.total
                 /\ after.positive
                      = before.positive + (IF was = 1 THEN 0 ELSE 1)
                 /\ after.negative
                      = before.negative - (IF was = -1 THEN 1 ELSE 0)]_vars
    /\ [](last.op = "get_feedback_stats" =>
            LET counts == FeedbackCounts(RowsOf(chat_messages, last.actor))
            IN /\ last.stats.total = counts.total
               /\ last.stats.positive = counts.positive
               /\ last.stats.negative = counts.negative
               /\ counts.total > 0 =>
                     last.stats.average_rating
                        = TrueDivide(counts.positive - counts.negative,
                                     counts.total))

\* feedback stats requested after +1 was submitted on the tenant's only
\* message: one positive of one message, average_rating 1
C23_Witness ==
    /\ last.op = "get_feedback_stats"
    /\ last.stats.total = 1 /\ last.stats.positive = 1
    /\ last.stats.average_rating = <<1, 1>>

\* C24: a chat-send that passed the quota check, with the credential
\* configured and the orchestrator's dependencies answering, persists and
\* returns the orchestrator's generated answer, not a substitute or
\* placeholder text.
C24_OrchestratorAnswerPersisted ==
    (last.op \in {"send", "stream"} /\ last.outcome = "ok") =>
        \A m \in last.messages : m.response = RagAnswer

\* C25: when the embedding backend fails during the retrieval step of a
\* RAG query, the result returned to the caller is distinguishable from
\* the retrieval-empty outcome: it is not the canned
\* no-relevant-information answer with chunks_retrieved 0.
C25_EmbeddingFailureSurfaced ==
    (last.op = "rag_query" /\ last.list = <<"embedding_raised">>) =>
        ~(/\ last.rag.response = NoRelevantInformation
          /\ last.rag.chunks_retrieved = 0)

\* C26: under any interleaving of concurrent chat-send requests, blocking
\* or streaming, the number of ChatMessage rows of a tenant never exceeds
\* its max_chat_messages (no tenant starts above its limit and no limit is
\* lowered).
C26_MessageQuotaHolds ==
    \A t \in tenants :
        Cardinality(RowsOf(chat_messages, t.id)) <= t.max_chat_messages

\* C27: identify_tenant never binds a request to a tenant whose is_active
\* is false, whichever branch binds it: the four strategies, the
\* development-mode default, the default-tenant lookups and the any-tenant
\* fallback.
C27_NeverBindsInactive ==
    \A r \in DOMAIN reqs :
        reqs[r].pc = "done" => reqs[r].tenant.is_active

\* C30: once regenerate_api_key has returned for a tenant, the key it
\* replaced never again resolves to that tenant by the bearer strategy,
\* and the key it returned is the tenant's key; a tenant's key resolves to
\* that tenant by the bearer strategy whenever the tenant is active.
C30_OldKeyRevoked ==
    /\ \A t \in TenantIds, old \in ApiKeys \cup IssuedKeys \cup {NoKey} :
          [](( /\ last.op = "regenerate_api_key" /\ last.outcome = "ok"
               /\ last.actor = t /\ last.list[1] = old)
                => [](\A x \in ByApiKey(tenants, old) : x.id # t))
    /\ [](\A x \in tenants :
            /\ (last.op = "regenerate_api_key" /\ last.outcome = "ok"
                 /\ last.actor = x.id) => x.api_key = last.list[2]
            /\ (x.is_active /\ x.api_key # NoKey) =>
                  ByApiKey(tenants, x.api_key) = {x})

\* a request presenting a key that regenerate_api_key issued was bound to
\* the tenant by the bearer strategy, and the key issued replaced another
C30_Witness ==
    /\ last.op = "regenerate_api_key" /\ last.outcome = "ok"
    /\ last.list[1] # NoKey
    /\ \E r \in DOMAIN reqs :
          /\ reqs[r].pc = "done" /\ reqs[r].via = 1
          /\ reqs[r].credentials.credentials = last.list[2]
          /\ reqs[r].tenant.id = last.actor

\* C28: the session_id of every ChatMessage is the session_id of an
\* existing ChatSession of the message's tenant, also when the caller
\* supplied a session_id that no session has or that is a session of
\* another tenant.
C28_MessageSessionExists ==
    \A m \in chat_messages :
        \E x \in chat_sessions :
            x.session_id = m.session_id /\ x.tenant_id = m.tenant_id

==============================================================================
